---- MODULE Spec2Model ----
(***************************************************************************)
(* The archive cache and retrieval engine of archives_manager.py: the      *)
(* two-tier file cache (player index, month archive), the reverse          *)
(* chronological scans get_most_recent_games / get_games_between_timestamps *)
(* and the rating reconstruction _correct_archive_elo.                      *)
(***************************************************************************)
EXTENDS Integers, Sequences, FiniteSets, TLC

VARIABLES
    remoteMonths,   \* what api.chess.com holds for "alice": month i -> games, oldest first
    remoteIndex,    \* the 'archives' list api.chess.com answers for "alice"
    indexFiles,     \* json/archive_lists/<lower name>.json
    archiveFiles,   \* json/archives/<name>/<year>/<month>.json
    netLog,         \* every session.get issued, in order, with its status
    writeLog,       \* every cache file opened for writing, in order
    callLog,        \* completed getPlayerIndex / getMonthArchive calls, in order
    pc,             \* per caller: position inside _getMonthlyArchivesList / _getArchivedGames
    frame,          \* per caller: the call's argument and locals
    q,              \* the running query (get_most_recent_games / get_games_between_timestamps)
    prev,           \* the completed get_most_recent_games a follow-up query is compared with
    elo,            \* a list of games handed to _correct_archive_elo, and the list after it
    acc             \* a call of a game accessor or of a built predicate, and what it gave

vars ==
    <<remoteMonths, remoteIndex, indexFiles, archiveFiles, netLog, writeLog, callLog, pc, frame,
      q, prev, elo, acc>>

(***************************************************************************)
(* Bounds of the model.                                                    *)
(***************************************************************************)
MaxGames == 3       \* games in a generated history
PerMonth == 2       \* games per month in a generated history
MaxCount == 2       \* largest num_games drawn
MaxCap == 2         \* largest explicit max_games_searched drawn
MaxCalls == 3       \* cache calls in one behaviour of the cache specifications
MaxEloGames == 3    \* games in a list handed to _correct_archive_elo on its own
MaxRatingStep == 2  \* reported ratings drawn for such a game: ReportedRating(0..MaxRatingStep)

(***************************************************************************)
(* Program constants.                                                      *)
(***************************************************************************)
HTTP_OK == 200
DefaultScanFactor == 10
MonthsPerYear == 12
EpochYear == 1970

(***************************************************************************)
(* Generic helpers.                                                        *)
(***************************************************************************)
None == <<>>
Some(v) == <<v>>

Abs(x) == IF x < 0 THEN -x ELSE x

Reverse(s) == [k \in 1..Len(s) |-> s[Len(s) + 1 - k]]

RECURSIVE SeqSum(_)
SeqSum(s) == IF s = <<>> THEN 0 ELSE s[1] + SeqSum(Tail(s))

RECURSIVE Flatten(_)
Flatten(ss) == IF ss = <<>> THEN <<>> ELSE ss[1] \o Flatten(Tail(ss))

SeqsUpTo(S, n) == UNION {[1..k -> S] : k \in 0..n}

IsSuffix(s, t) ==
    /\ Len(s) <= Len(t)
    /\ \A k \in 1..Len(s) : s[k] = t[Len(t) - Len(s) + k]

LastN(n, s) == IF Len(s) <= n THEN s ELSE SubSeq(s, Len(s) - n + 1, Len(s))

(***************************************************************************)
(* Names and time.                                                         *)
(***************************************************************************)
\* str.lower on the names of the model
Lower(name) == IF name = "Alice" THEN "alice" ELSE name

_case_insensitive_match(str_a, str_b) == Lower(str_a) = Lower(str_b)

PlayerNames == {"alice", "Alice", "bob"}
LowerNames == {Lower(n) : n \in PlayerNames}

\* one month lasts MonthLen time units; histories start in December of the epoch year
MonthLen == PerMonth + 1
FirstMonthIdx == MonthsPerYear - 1

\* time.gmtime(ts).tm_year / .tm_mon
gmtime(unix_timestamp) ==
    [tm_year |-> EpochYear + ((unix_timestamp \div MonthLen) \div MonthsPerYear),
     tm_mon  |-> ((unix_timestamp \div MonthLen) % MonthsPerYear) + 1]

(***************************************************************************)
(* Month URLs.  A URL is the text the regular expression sees: the player, *)
(* the year and the month it captures, and whatever surrounds the match.   *)
(***************************************************************************)
MonthUrl(player_name, year, month) ==
    [player_name |-> player_name, year |-> year, month |-> month, extra |-> ""]

\* a text the regular expression finds no match in
MalformedUrl == [extra |-> "https://api.chess.com/pub/player/alice/games/1970-12"]
Conforms(month_url) == "year" \in DOMAIN month_url

\* _extract_url_data: re.search is not anchored, text around the match is dropped;
\* None when there is no match
_extract_url_data(month_url) ==
    IF Conforms(month_url)
    THEN [player_name |-> month_url.player_name, year |-> month_url.year,
          month |-> month_url.month]
    ELSE None

\* the URL of month i (1 = oldest) of alice's history
HistoryUrl(i) ==
    LET idx == FirstMonthIdx + i - 1
    IN  MonthUrl("alice", EpochYear + (idx \div MonthsPerYear), (idx % MonthsPerYear) + 1)

(***************************************************************************)
(* Games, as the remote source reports them.                               *)
(***************************************************************************)
RapidRated == [time_class |-> "rapid", rated |-> TRUE]
RapidUnrated == [time_class |-> "rapid", rated |-> FALSE]
BlitzRated == [time_class |-> "blitz", rated |-> TRUE]
Kinds == {RapidRated, RapidUnrated, BlitzRated}

\* the rating alice has after her k-th game, and her opponent's
ReportedRating(k) == 1200 + k * k
OpponentRating(k) == 1190 + 3 * k

\* game k of alice's history (k counts from the oldest), in month mi at position pos
MakeGame(k, kind, mi, pos) ==
    LET aliceWhite == (k % 2 = 1)
        aliceResult == CASE k % 3 = 1 -> "win" [] k % 3 = 2 -> "checkmated" [] OTHER -> "agreed"
        bobResult == CASE k % 3 = 1 -> "resigned" [] k % 3 = 2 -> "win" [] OTHER -> "agreed"
        aliceSide == [username |-> IF k % 2 = 1 THEN "alice" ELSE "Alice",
                      rating |-> ReportedRating(k), result |-> aliceResult]
        bobSide == [username |-> "bob", rating |-> OpponentRating(k), result |-> bobResult]
    IN  [url |-> k,
         end_time |-> (FirstMonthIdx + mi - 1) * MonthLen + pos,
         time_class |-> kind.time_class,
         rated |-> kind.rated,
         rules |-> "chess",
         accuracies |-> IF k % 2 = 0 THEN Some([white |-> 90, black |-> 80]) ELSE None,
         white |-> IF aliceWhite THEN aliceSide ELSE bobSide,
         black |-> IF aliceWhite THEN bobSide ELSE aliceSide]

\* the number of games in the months before month mi of a layout
RECURSIVE GamesBefore(_, _)
GamesBefore(layout, mi) ==
    IF mi <= 1 THEN 0 ELSE Len(layout[mi - 1]) + GamesBefore(layout, mi - 1)

\* a history from its layout: one sequence of kinds per month, oldest month first
MakeHistory(layout) ==
    [mi \in 1..Len(layout) |->
        [pos \in 1..Len(layout[mi]) |->
            MakeGame(GamesBefore(layout, mi) + pos, layout[mi][pos], mi, pos - 1)]]

\* the remote source opens a new month every PerMonth games
Chunk(ks) ==
    [mi \in 1..((Len(ks) + PerMonth - 1) \div PerMonth) |->
        SubSeq(ks, (mi - 1) * PerMonth + 1,
               IF mi * PerMonth < Len(ks) THEN mi * PerMonth ELSE Len(ks))]

GeneratedHistories == {MakeHistory(Chunk(ks)) : ks \in SeqsUpTo(Kinds, MaxGames)}

\* DefaultScanFactor blitz games played after one rapid game
LongHistory ==
    MakeHistory(Chunk([k \in 1..(DefaultScanFactor + 1) |->
                          IF k = 1 THEN RapidRated ELSE BlitzRated]))

\* three rapid games in one month, two in the next
ScenarioHistory ==
    MakeHistory(<< <<RapidRated, RapidRated, RapidRated>>, <<RapidRated, RapidRated>> >>)
ScenarioCount == Len(Flatten(ScenarioHistory)) - 1

(***************************************************************************)
(* The remote source (api.chess.com).                                      *)
(***************************************************************************)
\* _jsonMonthlyArchivesListURL
_jsonMonthlyArchivesListURL(player_name) == [archives_of |-> player_name]

\* the body of a 200 answer to the index request: response.json()['archives']
RemoteArchives(archives, player_name) ==
    IF Lower(player_name) = "alice" THEN archives ELSE <<>>

\* the list for a history whose months all have a well-formed URL
IndexOf(months) == [i \in 1..Len(months) |-> HistoryUrl(i)]

\* the body of a 200 answer to a month request: response.json()['games']
RemoteGames(months, month_url) ==
    LET hit == {i \in 1..Len(months) :
                   /\ Lower(month_url.player_name) = "alice"
                   /\ HistoryUrl(i).year = month_url.year
                   /\ HistoryUrl(i).month = month_url.month}
    IN  IF hit = {} THEN <<>> ELSE months[CHOOSE i \in hit : TRUE]

\* the status codes the remote may answer a request with
IndexStatuses(player_name) ==
    IF Lower(player_name) = "alice" THEN {HTTP_OK, 404} ELSE {404}
MonthStatuses(month_url) ==
    IF month_url.extra = "" THEN {HTTP_OK, 404} ELSE {404}

(***************************************************************************)
(* Files.  A file is absent (not in the domain), complete, or cut short.   *)
(***************************************************************************)
\* json.dump into a file opened with 'w', then closed
JsonDump(data) == [complete |-> TRUE, doc |-> data]
\* the file just after open(path, 'w'): created or truncated, nothing written yet
Truncated == [complete |-> FALSE, doc |-> <<>>]
\* json.load: the document, or JSONDecodeError on a file cut short
JsonLoad(blob) ==
    IF blob.complete
    THEN [raised |-> "none", value |-> blob.doc]
    ELSE [raised |-> "JSONDecodeError", value |-> <<>>]

WriteFile(files, path, blob) == (path :> blob) @@ files

\* what a call gives back: a value, or the exception it raised
Returned(value) == [raised |-> "none", value |-> value]
Raised(exc) == [raised |-> exc, value |-> <<>>]

(***************************************************************************)
(* Tier 1: the monthly archives list of a player.                          *)
(***************************************************************************)
\* mutant: the file is named after the player name as the caller spells it
_monthlyArchivesFilePath_asSpelled(player_name) ==
    [dir |-> "archive_lists", file_name |-> player_name]

_monthlyArchivesFilePath(player_name) ==
    [dir |-> "archive_lists", file_name |-> Lower(player_name)]

_monthlyArchivesListExists(files, player_name) ==
    _monthlyArchivesFilePath(player_name) \in DOMAIN files

_saveMonthlyArchivesList(files, player_name, list_data) ==
    WriteFile(files, _monthlyArchivesFilePath(player_name), JsonDump(list_data))

_readMonthlyArchivesList(files, player_name) ==
    JsonLoad(files[_monthlyArchivesFilePath(player_name)])

\* mutant: the status code is not looked at, the body is taken as the list
_requestMonthlyArchivesList_unchecked(archives, player_name, status) ==
    [net |-> <<[slept |-> TRUE, url |-> _jsonMonthlyArchivesListURL(player_name),
                status |-> status]>>,
     out |-> Returned(IF status = HTTP_OK THEN RemoteArchives(archives, player_name) ELSE <<>>)]

\* _requestMonthlyArchivesList: the sleep, the GET, and the answer or the raise
_requestMonthlyArchivesList(archives, player_name, status) ==
    [net |-> <<[slept |-> TRUE, url |-> _jsonMonthlyArchivesListURL(player_name),
                status |-> status]>>,
     out |-> IF status = HTTP_OK
             THEN Returned(RemoteArchives(archives, player_name))
             ELSE Raised("ArchiveRetrievalError")]

\* _getMonthlyArchivesList as one call: the files and requests after it, and its outcome
_getMonthlyArchivesList(files, archives, player_name, status) ==
    IF _monthlyArchivesListExists(files, player_name)
    THEN [files |-> files, net |-> <<>>, wrote |-> <<>>,
          out |-> _readMonthlyArchivesList(files, player_name)]
    ELSE LET r == _requestMonthlyArchivesList(archives, player_name, status)
         IN  IF r.out.raised # "none"
             THEN [files |-> files, net |-> r.net, wrote |-> <<>>, out |-> r.out]
             ELSE [files |-> _saveMonthlyArchivesList(files, player_name, r.out.value),
                   net |-> r.net,
                   wrote |-> <<_monthlyArchivesFilePath(player_name)>>,
                   out |-> r.out]

(***************************************************************************)
(* Tier 2: the games of one month.                                         *)
(***************************************************************************)
\* the path keeps the player name as the URL spells it (file_name is unused)
_archivedGamesFilePath(player_name, year, month) ==
    [dir |-> "archives", player_name |-> player_name, year |-> year, month |-> month]

\* mutant: a month is never found in the cache
_archivedGamesExists_never(files, player_name, year, month) == FALSE

_archivedGamesExists(files, player_name, year, month) ==
    _archivedGamesFilePath(player_name, year, month) \in DOMAIN files

_saveArchivedGames(files, player_name, year, month, list_data) ==
    WriteFile(files, _archivedGamesFilePath(player_name, year, month), JsonDump(list_data))

_readArchivedGames(files, player_name, year, month) ==
    JsonLoad(files[_archivedGamesFilePath(player_name, year, month)])

\* mutant: the month is requested without the sleep before it
_requestArchivedGames_unthrottled(months, month_url, status) ==
    [net |-> <<[slept |-> FALSE, url |-> month_url, status |-> status]>>,
     out |-> IF status = HTTP_OK
             THEN Returned(RemoteGames(months, month_url))
             ELSE Raised("ArchiveRetrievalError")]

\* mutant: a status other than 200 is taken as a month without games
_requestArchivedGames_swallows(months, month_url, status) ==
    [net |-> <<[slept |-> TRUE, url |-> month_url, status |-> status]>>,
     out |-> Returned(IF status = HTTP_OK THEN RemoteGames(months, month_url) ELSE <<>>)]

_requestArchivedGames(months, month_url, status) ==
    [net |-> <<[slept |-> TRUE, url |-> month_url, status |-> status]>>,
     out |-> IF status = HTTP_OK
             THEN Returned(RemoteGames(months, month_url))
             ELSE Raised("ArchiveRetrievalError")]

\* mutant: the fetched games are returned and never saved
_getArchivedGames_neverSaves(files, months, month_url, status) ==
    LET url_data == _extract_url_data(month_url)
    IN  IF _archivedGamesExists(files, url_data.player_name, url_data.year, url_data.month)
        THEN [files |-> files, net |-> <<>>, wrote |-> <<>>,
              out |-> _readArchivedGames(files, url_data.player_name, url_data.year,
                                         url_data.month)]
        ELSE [files |-> files, net |-> _requestArchivedGames(months, month_url, status).net,
              wrote |-> <<>>, out |-> _requestArchivedGames(months, month_url, status).out]

\* url_data['player_name'] on None raises TypeError before anything else is done
_getArchivedGames(files, months, month_url, status) ==
    LET url_data == _extract_url_data(month_url)
        player_name == url_data.player_name
        year == url_data.year
        month == url_data.month
    IN  IF url_data = None
        THEN [files |-> files, net |-> <<>>, wrote |-> <<>>, out |-> Raised("TypeError")]
        ELSE IF _archivedGamesExists(files, player_name, year, month)
        THEN [files |-> files, net |-> <<>>, wrote |-> <<>>,
              out |-> _readArchivedGames(files, player_name, year, month)]
        ELSE LET r == _requestArchivedGames(months, month_url, status)
             IN  IF r.out.raised # "none"
                 THEN [files |-> files, net |-> r.net, wrote |-> <<>>, out |-> r.out]
                 ELSE [files |-> _saveArchivedGames(files, player_name, year, month,
                                                    r.out.value),
                       net |-> r.net,
                       wrote |-> <<_archivedGamesFilePath(player_name, year, month)>>,
                       out |-> r.out]

NoFiles == [path \in {} |-> Truncated]

(***************************************************************************)
(* The cache used by one process, one call after the other (Spec).         *)
(***************************************************************************)
Callers == {1, 2}
IdleFrame == [op |-> "none", arg |-> "none", data |-> <<>>]
\* the locals of a query at its first statement
NewQuery(op, player_name, num_games, time_class, filter_func, max_games_searched, start_unix, end_unix) ==
    [pc |-> "index", op |-> op, player_name |-> player_name, num_games |-> num_games,
     time_class |-> time_class, filter_func |-> filter_func,
     default_cap |-> (max_games_searched = None),
     max_games_searched |-> IF max_games_searched = None
                            THEN num_games * DefaultScanFactor
                            ELSE max_games_searched[1],
     start_unix |-> start_unix, end_unix |-> end_unix,
     games_searched |-> 0, monthly_archived_list |-> <<>>,
     recent_archived_games |-> <<>>, num_unfiltered |-> 0,
     i |-> 0, j |-> 0, archived_games |-> <<>>, correct_elo |-> FALSE,
     visited |-> <<>>, obtained |-> <<>>, net |-> <<>>, wrote |-> <<>>,
     out |-> Returned(<<>>)]

\* no accessor is being called
IdleAccess == [pc |-> "idle", op |-> "none", archived_game |-> <<>>, arg |-> <<>>, out |-> <<>>]

\* _correct_archive_elo is not being looked at
IdleElo == [pc |-> "idle", player_name |-> "none", archived_games |-> <<>>, out |-> <<>>]

\* no query is running
IdleQuery == [NewQuery("none", "none", 0, None, None, None, 0, 0) EXCEPT !.pc = "idle"]

\* the month URLs a caller may pass: two months of the index, one with text after
\* the match, one spelling the player with a capital
MonthUrlInputs ==
    {HistoryUrl(1), HistoryUrl(2),
     [HistoryUrl(1) EXCEPT !.extra = "/x"],
     [HistoryUrl(1) EXCEPT !.player_name = "Alice"]}

AllRapid(n) == MakeHistory(Chunk([k \in 1..n |-> RapidRated]))

InitCache ==
    /\ remoteMonths = AllRapid(1)
    /\ remoteIndex = IndexOf(remoteMonths)
    /\ indexFiles = NoFiles
    /\ archiveFiles = NoFiles
    /\ netLog = <<>>
    /\ writeLog = <<>>
    /\ callLog = <<>>
    /\ pc = [c \in Callers |-> "idle"]
    /\ frame = [c \in Callers |-> IdleFrame]
    /\ q = IdleQuery
    /\ prev = None
    /\ elo = IdleElo
    /\ acc = IdleAccess

\* getPlayerIndex(player_name)
GetPlayerIndex(player_name) ==
    /\ Len(callLog) < MaxCalls
    /\ \E status \in IndexStatuses(player_name) :
        LET r == _getMonthlyArchivesList(indexFiles, remoteIndex, player_name, status)
        IN  /\ indexFiles' = r.files
            /\ netLog' = netLog \o r.net
            /\ writeLog' = writeLog \o r.wrote
            /\ callLog' = Append(callLog,
                   [op |-> "getPlayerIndex", arg |-> player_name, out |-> r.out])
    /\ UNCHANGED <<remoteMonths, remoteIndex, archiveFiles, pc, frame, q, prev, elo, acc>>

\* getMonthArchive(month_url)
GetMonthArchive(month_url) ==
    /\ Len(callLog) < MaxCalls
    /\ \E status \in MonthStatuses(month_url) :
        LET r == _getArchivedGames(archiveFiles, remoteMonths, month_url, status)
        IN  /\ archiveFiles' = r.files
            /\ netLog' = netLog \o r.net
            /\ writeLog' = writeLog \o r.wrote
            /\ callLog' = Append(callLog,
                   [op |-> "getMonthArchive", arg |-> month_url, out |-> r.out])
    /\ UNCHANGED <<remoteMonths, remoteIndex, indexFiles, pc, frame, q, prev, elo, acc>>

\* alice finishes another game: the remote source's newest month grows, or a new one opens
RemotePublish ==
    /\ Len(Flatten(remoteMonths)) < MaxGames
    /\ remoteMonths' = AllRapid(Len(Flatten(remoteMonths)) + 1)
    /\ remoteIndex' = IndexOf(remoteMonths')
    /\ UNCHANGED <<indexFiles, archiveFiles, netLog, writeLog, callLog, pc, frame, q, prev, elo, acc>>

Next ==
    \/ \E player_name \in PlayerNames : GetPlayerIndex(player_name)
    \/ \E month_url \in MonthUrlInputs : GetMonthArchive(month_url)
    \/ RemotePublish

Spec == InitCache /\ [][Next]_vars

\* the requests and the calls of the logs that concern one month triple / one player
IsMonthRequest(e) == "extra" \in DOMAIN e.url
MonthRequests(t) ==
    SelectSeq(netLog, LAMBDA e : IsMonthRequest(e) /\ _extract_url_data(e.url) = t)
MonthCalls(t) ==
    SelectSeq(callLog, LAMBDA c : c.op = "getMonthArchive" /\ _extract_url_data(c.arg) = t)
IndexRequests(name) ==
    SelectSeq(netLog, LAMBDA e : ~IsMonthRequest(e) /\ Lower(e.url.archives_of) = name)
IndexCalls(name) ==
    SelectSeq(callLog, LAMBDA c : c.op = "getPlayerIndex" /\ Lower(c.arg) = name)
MonthTriples == {_extract_url_data(u) : u \in MonthUrlInputs}

(* C1: in one process, when the first fetch of a (player, year, month) succeeds,
   every getMonthArchive call for that triple returns the same game sequence and
   the remote source is requested exactly once for the triple. *)
C1_Idempotent ==
    \A t \in MonthTriples :
        (MonthRequests(t) # <<>> /\ MonthRequests(t)[1].status = HTTP_OK)
            => /\ Len(MonthRequests(t)) = 1
               /\ \A k \in 1..Len(MonthCalls(t)) :
                    MonthCalls(t)[k].out = MonthCalls(t)[1].out

\* three calls for one triple, by two different URLs, the remote content having
\* changed after the first
C1_Witness ==
    \E t \in MonthTriples :
        /\ Len(MonthCalls(t)) >= 3
        /\ MonthRequests(t) # <<>> /\ MonthRequests(t)[1].status = HTTP_OK
        /\ \E k \in 2..Len(MonthCalls(t)) : MonthCalls(t)[k].arg # MonthCalls(t)[1].arg
        /\ RemoteGames(remoteMonths, MonthCalls(t)[1].arg) # MonthCalls(t)[1].out.value

(* C4: a getPlayerIndex call whose index request is answered with a non-success
   status raises the retrieval error and leaves the cache as it was, with no
   record for the player; and a call that finds no record requests the remote. *)
C4_FailedIndexFetch ==
    [][(Len(callLog') = Len(callLog) + 1
        /\ callLog'[Len(callLog')].op = "getPlayerIndex")
       => LET call == callLog'[Len(callLog')]
              asked == Len(netLog') = Len(netLog) + 1
          IN  /\ (asked /\ netLog'[Len(netLog')].status # HTTP_OK)
                    => /\ call.out.raised = "ArchiveRetrievalError"
                       /\ indexFiles' = indexFiles
                       /\ archiveFiles' = archiveFiles
                       /\ ~_monthlyArchivesListExists(indexFiles', call.arg)
              /\ ~_monthlyArchivesListExists(indexFiles, call.arg) => asked
      ]_vars

\* a failed index fetch for a player, followed by a call that requests again
C4_Witness ==
    \E name \in LowerNames :
        /\ Len(IndexCalls(name)) >= 2
        /\ IndexCalls(name)[1].out.raised = "ArchiveRetrievalError"
        /\ Len(IndexRequests(name)) >= 2
        /\ IndexRequests(name)[1].status # HTTP_OK
        /\ ~_monthlyArchivesListExists(indexFiles, name)

\* the getPlayerIndex calls for a lower-cased name that returned a list
FirstIndexSuccess(name) ==
    {k \in 1..Len(IndexCalls(name)) :
        /\ IndexCalls(name)[k].out.raised = "none"
        /\ \A j \in 1..(k - 1) : IndexCalls(name)[j].out.raised # "none"}

(* C17: the player index cache is keyed by the lower-cased player name: after one
   successful getPlayerIndex(p), every later getPlayerIndex(p') with
   lower(p') = lower(p) returns the stored list with no request to the remote
   source, whatever the remote source holds by then; the names share one record. *)
C17_IndexKeyedByLowerName ==
    \A name \in LowerNames :
        \A f \in FirstIndexSuccess(name) :
            /\ Len(IndexRequests(name)) = f
            /\ \A k \in f..Len(IndexCalls(name)) :
                  IndexCalls(name)[k].out = IndexCalls(name)[f].out
            /\ \A p \in PlayerNames :
                  Lower(p) = name =>
                      /\ _monthlyArchivesListExists(indexFiles, p)
                      /\ _readMonthlyArchivesList(indexFiles, p) = IndexCalls(name)[f].out

\* the index fetched for one spelling, then returned to a caller using the other
\* spelling after the remote source had opened a new month
C17_Witness ==
    \E name \in LowerNames :
        /\ Len(IndexCalls(name)) >= 2
        /\ IndexCalls(name)[1].out.raised = "none"
        /\ IndexCalls(name)[2].arg # IndexCalls(name)[1].arg
        /\ IndexCalls(name)[2].out.value # remoteIndex
        /\ Len(IndexRequests(name)) = 1

(***************************************************************************)
(* The same two lookups statement by statement, for callers that overlap   *)
(* (SpecConc) and for a process that may die between two statements        *)
(* (SpecCrash).                                                            *)
(***************************************************************************)
IsIndexCall(f) == f.op = "getPlayerIndex"

\* the cache file a call works on
PathOf(f) ==
    IF IsIndexCall(f)
    THEN _monthlyArchivesFilePath(f.arg)
    ELSE LET url_data == _extract_url_data(f.arg)
         IN  _archivedGamesFilePath(url_data.player_name, url_data.year, url_data.month)

FilesOf(f) == IF IsIndexCall(f) THEN indexFiles ELSE archiveFiles

SetFiles(f, files) ==
    IF IsIndexCall(f)
    THEN indexFiles' = files /\ UNCHANGED archiveFiles
    ELSE archiveFiles' = files /\ UNCHANGED indexFiles

Busy == {c \in Callers : pc[c] # "idle"}

Finish(c, out) ==
    /\ callLog' = Append(callLog, [op |-> frame[c].op, arg |-> frame[c].arg, out |-> out])
    /\ pc' = [pc EXCEPT ![c] = "idle"]
    /\ frame' = [frame EXCEPT ![c] = IdleFrame]

\* a caller enters _getMonthlyArchivesList(arg) or _getArchivedGames(arg)
Begin(c, op, arg) ==
    /\ pc[c] = "idle"
    /\ Len(callLog) + Cardinality(Busy) < MaxCalls
    /\ pc' = [pc EXCEPT ![c] = "exists"]
    /\ frame' = [frame EXCEPT ![c] = [op |-> op, arg |-> arg, data |-> <<>>]]
    /\ UNCHANGED <<remoteMonths, remoteIndex, indexFiles, archiveFiles, netLog, writeLog, callLog, q, prev, elo, acc>>

\* if _monthlyArchivesListExists(...) / if _archivedGamesExists(...)
CheckExists(c) ==
    /\ pc[c] = "exists"
    /\ pc' = [pc EXCEPT ![c] = IF PathOf(frame[c]) \in DOMAIN FilesOf(frame[c])
                               THEN "read" ELSE "request"]
    /\ UNCHANGED <<remoteMonths, remoteIndex, indexFiles, archiveFiles, netLog, writeLog, callLog,
                   frame, q, prev, elo, acc>>

\* return _readMonthlyArchivesList(...) / return _readArchivedGames(...)
ReadRecord(c) ==
    /\ pc[c] = "read"
    /\ Finish(c, JsonLoad(FilesOf(frame[c])[PathOf(frame[c])]))
    /\ UNCHANGED <<remoteMonths, remoteIndex, indexFiles, archiveFiles, netLog, writeLog, q, prev, elo, acc>>

\* data = _requestMonthlyArchivesList(...) / data = _requestArchivedGames(...)
Request(c) ==
    /\ pc[c] = "request"
    /\ \E status \in IF IsIndexCall(frame[c]) THEN IndexStatuses(frame[c].arg)
                                              ELSE MonthStatuses(frame[c].arg) :
        LET r == IF IsIndexCall(frame[c])
                 THEN _requestMonthlyArchivesList(remoteIndex, frame[c].arg, status)
                 ELSE _requestArchivedGames(remoteMonths, frame[c].arg, status)
        IN  /\ netLog' = netLog \o r.net
            /\ IF r.out.raised # "none"
               THEN Finish(c, r.out)
               ELSE /\ pc' = [pc EXCEPT ![c] = "open"]
                    /\ frame' = [frame EXCEPT ![c].data = r.out.value]
                    /\ UNCHANGED callLog
    /\ UNCHANGED <<remoteMonths, remoteIndex, indexFiles, archiveFiles, writeLog, q, prev, elo, acc>>

\* with open(path, 'w') as json_file: the file exists from here on, empty
SaveOpen(c) ==
    /\ pc[c] = "open"
    /\ SetFiles(frame[c], WriteFile(FilesOf(frame[c]), PathOf(frame[c]), Truncated))
    /\ writeLog' = Append(writeLog, PathOf(frame[c]))
    /\ pc' = [pc EXCEPT ![c] = "dump"]
    /\ UNCHANGED <<remoteMonths, remoteIndex, netLog, callLog, frame, q, prev, elo, acc>>

\* json.dump(list_data, json_file), the file is closed, return data
SaveDump(c) ==
    /\ pc[c] = "dump"
    /\ SetFiles(frame[c],
                WriteFile(FilesOf(frame[c]), PathOf(frame[c]), JsonDump(frame[c].data)))
    /\ Finish(c, Returned(frame[c].data))
    /\ UNCHANGED <<remoteMonths, remoteIndex, netLog, writeLog, q, prev, elo, acc>>

\* the process dies inside a call; the files stay as they are
Crash(c) ==
    /\ pc[c] # "idle"
    /\ Finish(c, Raised("crash"))
    /\ UNCHANGED <<remoteMonths, remoteIndex, indexFiles, archiveFiles, netLog, writeLog, q, prev, elo, acc>>

CallStep(c) ==
    \/ \E player_name \in {"alice", "Alice"} : Begin(c, "getPlayerIndex", player_name)
    \/ \E month_url \in MonthUrlInputs : Begin(c, "getMonthArchive", month_url)
    \/ CheckExists(c)
    \/ ReadRecord(c)
    \/ Request(c)
    \/ SaveOpen(c)
    \/ SaveDump(c)

NextConc == \E c \in Callers : CallStep(c)

SpecConc == InitCache /\ [][NextConc]_vars

NextCrash == CallStep(1) \/ Crash(1)

SpecCrash == InitCache /\ [][NextCrash]_vars

\* the cache keys of the model, the requests that succeeded for one and the writes of one
CacheKeys ==
    {[op |-> "getPlayerIndex", arg |-> n] : n \in {"alice", "Alice"}}
        \cup {[op |-> "getMonthArchive", arg |-> u] : u \in MonthUrlInputs}
RequestKey(e) ==
    IF IsMonthRequest(e)
    THEN PathOf([op |-> "getMonthArchive", arg |-> e.url])
    ELSE PathOf([op |-> "getPlayerIndex", arg |-> e.url.archives_of])
FetchesOf(path) ==
    SelectSeq(netLog, LAMBDA e : RequestKey(e) = path /\ e.status = HTTP_OK)
WritesOf(path) == SelectSeq(writeLog, LAMBDA w : w = path)

(* C2: when two callers overlap on one cache key with no record yet, the remote
   source is fetched at most once for the key and the record is written at most
   once, whatever the interleaving of exists-check, fetch and save. *)
C2_AtMostOneFetchPerKey ==
    \A k \in CacheKeys :
        /\ Len(FetchesOf(PathOf(k))) <= 1
        /\ Len(WritesOf(PathOf(k))) <= 1

(* C3: a cache write is atomic for readers: after a crash at any point of a save,
   no call finds a partially written record as an existing entry, so every file a
   call can see once no save is in progress is complete and no call fails to
   deserialize a record. *)
C3_AtomicWrite ==
    /\ \A k \in 1..Len(callLog) : callLog[k].out.raised # "JSONDecodeError"
    /\ (Busy = {}) =>
          /\ \A path \in DOMAIN indexFiles : indexFiles[path].complete
          /\ \A path \in DOMAIN archiveFiles : archiveFiles[path].complete

(* C20: a persisted record that fails to deserialize does not make the lookup
   fail: it is treated as a miss, so no call ends with the parse error; a call
   returns its data or raises the retrieval error of the fetch it made. *)
C20_CorruptRecordIsMiss ==
    \A k \in 1..Len(callLog) :
        callLog[k].out.raised \in {"none", "ArchiveRetrievalError", "crash"}

\* the record a completed call looked for was in the cache when the call began
ServedFromCache(call) ==
    IF call.op = "getPlayerIndex"
    THEN _monthlyArchivesListExists(indexFiles, call.arg)
    ELSE PathOf(call) \in DOMAIN archiveFiles

(* C25: every request to the remote source, for an index or for a month, is made
   right after the throttle delay, one delay for one request; a lookup that finds
   its record in the cache sleeps and requests nothing, one that does not makes
   exactly one request. *)
C25_ThrottledRequests ==
    /\ [](\A k \in 1..Len(netLog) : netLog[k].slept)
    /\ [][Len(callLog') = Len(callLog) + 1
            => IF ServedFromCache(callLog'[Len(callLog')])
               THEN netLog' = netLog
               ELSE Len(netLog') = Len(netLog) + 1
         ]_vars

\* an index and a month fetched, each after its delay, then the month looked up
\* again with no further request
C25_Witness ==
    /\ Len(callLog) = MaxCalls
    /\ callLog[1].op = "getPlayerIndex"
    /\ callLog[2].op = "getMonthArchive"
    /\ callLog[3].op = "getMonthArchive"
    /\ \A k \in 1..Len(callLog) : callLog[k].out.raised = "none"
    /\ Len(netLog) = 2
    /\ \A k \in 1..Len(netLog) : netLog[k].slept

(***************************************************************************)
(* Game accessors and the predicate builder.                               *)
(***************************************************************************)
\* get_elo: the ratings from the player's side, ValueError when in neither side
get_elo(archived_game, player_name) ==
    IF _case_insensitive_match(archived_game.white.username, player_name)
    THEN [raised |-> "none", Player |-> archived_game.white.rating,
          Opponent |-> archived_game.black.rating]
    ELSE IF _case_insensitive_match(archived_game.black.username, player_name)
    THEN [raised |-> "none", Player |-> archived_game.black.rating,
          Opponent |-> archived_game.white.rating]
    ELSE [raised |-> "ValueError", Player |-> 0, Opponent |-> 0]

\* mutant: the result is read from white's side whoever asks
get_won_whiteView(archived_game, player_name) ==
    IF _case_insensitive_match(archived_game.white.username, player_name)
       \/ _case_insensitive_match(archived_game.black.username, player_name)
    THEN [raised |-> "none",
          value |-> IF archived_game.white.result = "win" THEN Some(1)
                    ELSE IF archived_game.black.result = "win" THEN Some(0) ELSE None]
    ELSE [raised |-> "ValueError", value |-> None]

\* get_won: Some(1) won, Some(0) lost, None for no winner; ValueError as above
get_won(archived_game, player_name) ==
    LET white_result == archived_game.white.result
        black_result == archived_game.black.result
    IN  IF _case_insensitive_match(archived_game.white.username, player_name)
        THEN [raised |-> "none",
              value |-> IF white_result = "win" THEN Some(1)
                        ELSE IF black_result = "win" THEN Some(0) ELSE None]
        ELSE IF _case_insensitive_match(archived_game.black.username, player_name)
        THEN [raised |-> "none",
              value |-> IF white_result = "win" THEN Some(0)
                        ELSE IF black_result = "win" THEN Some(1) ELSE None]
        ELSE [raised |-> "ValueError", value |-> None]

\* build_archive_filter: the criteria it closes over; None is "don't care"
build_archive_filter(rated, has_accuracies, exclude_draws, max_elo_diff, rules) ==
    [rated |-> rated, has_accuracies |-> has_accuracies, exclude_draws |-> exclude_draws,
     max_elo_diff |-> max_elo_diff, rules |-> rules]

\* the filter_func that build_archive_filter returns, applied to a game
filter_func_of(f, archived_game) ==
    LET elo_diff == archived_game.white.rating - archived_game.black.rating
        has_acc == archived_game.accuracies # None
        no_win == archived_game.white.result # "win" /\ archived_game.black.result # "win"
    IN  IF f.max_elo_diff # None /\ Abs(elo_diff) > f.max_elo_diff[1] THEN FALSE
        ELSE IF f.has_accuracies # None
                /\ ((~has_acc /\ f.has_accuracies[1]) \/ (has_acc /\ ~f.has_accuracies[1]))
        THEN FALSE
        ELSE IF f.rated # None /\ archived_game.rated # f.rated[1] THEN FALSE
        ELSE IF f.exclude_draws # None /\ no_win THEN FALSE
        ELSE IF f.rules # None /\ archived_game.rules # f.rules[1] THEN FALSE
        ELSE TRUE

\* filtered = True if (filter_func and filter_func(archived_game) == False) else False
Filtered(filter_func, archived_game) ==
    filter_func # None /\ ~filter_func_of(filter_func[1], archived_game)

\* mutant: the time class is never looked at
WrongTimeClass_never(time_class, archived_game) == FALSE

\* the time_class test of both scans: the game is skipped when it yields TRUE
WrongTimeClass(time_class, archived_game) ==
    time_class # None /\ archived_game.time_class # time_class[1]

(***************************************************************************)
(* Month-range selection.                                                  *)
(***************************************************************************)
\* url_data['year'] on None raises TypeError
HasMalformed(monthly_archived_list) ==
    \E k \in 1..Len(monthly_archived_list) : _extract_url_data(monthly_archived_list[k]) = None

\* mutant: an entry with no match is passed over
_filterOutArchiveListAfterUnixTimestamp_skipping(monthly_archived_list, unix_timestamp) ==
    Returned(SelectSeq(monthly_archived_list,
        LAMBDA monthly_archive_url :
            /\ Conforms(monthly_archive_url)
            /\ \/ monthly_archive_url.year < gmtime(unix_timestamp).tm_year
               \/ /\ monthly_archive_url.year = gmtime(unix_timestamp).tm_year
                  /\ monthly_archive_url.month <= gmtime(unix_timestamp).tm_mon))

\* mutant: the months are compared without the years
_filterOutArchiveListAfterUnixTimestamp_monthOnly(monthly_archived_list, unix_timestamp) ==
    IF HasMalformed(monthly_archived_list) THEN Raised("TypeError")
    ELSE Returned(SelectSeq(monthly_archived_list,
            LAMBDA monthly_archive_url :
                monthly_archive_url.month <= gmtime(unix_timestamp).tm_mon))

_filterOutArchiveListAfterUnixTimestamp(monthly_archived_list, unix_timestamp) ==
    LET unix_year == gmtime(unix_timestamp).tm_year
        unix_month == gmtime(unix_timestamp).tm_mon
    IN  IF HasMalformed(monthly_archived_list) THEN Raised("TypeError")
        ELSE Returned(SelectSeq(monthly_archived_list,
                LAMBDA monthly_archive_url :
                    LET year == _extract_url_data(monthly_archive_url).year
                        month == _extract_url_data(monthly_archive_url).month
                    IN  year < unix_year \/ (year = unix_year /\ month <= unix_month)))

\* mutant: the comparisons of the other filter, copied unchanged
_filterOutArchiveListBeforeUnixTimestamp_asAfter(monthly_archived_list, unix_timestamp) ==
    _filterOutArchiveListAfterUnixTimestamp(monthly_archived_list, unix_timestamp)

_filterOutArchiveListBeforeUnixTimestamp(monthly_archived_list, unix_timestamp) ==
    LET unix_year == gmtime(unix_timestamp).tm_year
        unix_month == gmtime(unix_timestamp).tm_mon
    IN  IF HasMalformed(monthly_archived_list) THEN Raised("TypeError")
        ELSE Returned(SelectSeq(monthly_archived_list,
                LAMBDA monthly_archive_url :
                    LET year == _extract_url_data(monthly_archive_url).year
                        month == _extract_url_data(monthly_archive_url).month
                    IN  year > unix_year \/ (year = unix_year /\ month >= unix_month)))

(***************************************************************************)
(* Rating reconstruction.                                                  *)
(***************************************************************************)
\* int(round(total / d)): Python rounds a tie to the even neighbour
RoundedMean(total, d) ==
    LET quo == total \div d
        rem == total % d
    IN  IF 2 * rem < d THEN quo
        ELSE IF 2 * rem > d THEN quo + 1
        ELSE IF quo % 2 = 0 THEN quo ELSE quo + 1

\* a game with both ratings replaced
WithRatings(archived_game, white_rating, black_rating) ==
    [archived_game EXCEPT !.white.rating = white_rating, !.black.rating = black_rating]

\* mutant: a later game keeps the ratings the remote source reported
CorrectLaterGame_unchanged(archived_game, player_name, prev_player_elo) == archived_game

\* mutant: only the player's side is rewritten, the opponent's rating is kept
CorrectLaterGame_opponentKept(archived_game, player_name, prev_player_elo) ==
    IF _case_insensitive_match(archived_game.white.username, player_name)
    THEN WithRatings(archived_game, prev_player_elo, archived_game.black.rating)
    ELSE WithRatings(archived_game, archived_game.white.rating, prev_player_elo)

\* the loop body for a game after the first one, prev_player_elo being the
\* rating reported in the game before it
CorrectLaterGame(archived_game, player_name, prev_player_elo) ==
    LET uncorrected_player_elo == get_elo(archived_game, player_name).Player
        elo_change == uncorrected_player_elo - prev_player_elo
    IN  IF _case_insensitive_match(archived_game.white.username, player_name)
        THEN WithRatings(archived_game, prev_player_elo,
                         archived_game.black.rating + elo_change)
        ELSE WithRatings(archived_game, archived_game.white.rating + elo_change,
                         prev_player_elo)

\* mutant: the first game is treated as if the player had the white pieces
CorrectFirstGame_asWhite(first_game, player_name, average_abs_elo_change) ==
    LET won == get_won(first_game, player_name).value
        e == average_abs_elo_change
        w == first_game.white.rating
        b == first_game.black.rating
    IN  IF won = None THEN first_game
        ELSE IF won = Some(1) THEN WithRatings(first_game, w - e, b + e)
                              ELSE WithRatings(first_game, w + e, b - e)

\* the guess for the first game from the rounded mean absolute change
CorrectFirstGame(first_game, player_name, average_abs_elo_change) ==
    LET won == get_won(first_game, player_name).value
        e == average_abs_elo_change
        w == first_game.white.rating
        b == first_game.black.rating
    IN  IF won = None THEN first_game
        ELSE IF _case_insensitive_match(first_game.white.username, player_name)
        THEN IF won = Some(1) THEN WithRatings(first_game, w - e, b + e)
                              ELSE WithRatings(first_game, w + e, b - e)
        ELSE IF won = Some(1) THEN WithRatings(first_game, w + e, b - e)
                              ELSE WithRatings(first_game, w - e, b + e)

\* _correct_archive_elo: the list as it is after the in-place rewrite
_correct_archive_elo(archived_games, player_name) ==
    LET n == Len(archived_games)
        reported == [k \in 1..n |-> get_elo(archived_games[k], player_name).Player]
        changes == [k \in 1..(n - 1) |-> Abs(reported[k + 1] - reported[k])]
    IN  IF n < 2 THEN archived_games
        ELSE [k \in 1..n |->
                IF k = 1
                THEN CorrectFirstGame(archived_games[1], player_name,
                                      RoundedMean(SeqSum(changes), n - 1))
                ELSE CorrectLaterGame(archived_games[k], player_name, reported[k - 1])]

(***************************************************************************)
(* _correct_archive_elo on its own (SpecElo): a list of the player's games  *)
(* is drawn, the function is applied to it.                                *)
(***************************************************************************)
\* the games a list is drawn from: the player with either colour, spelled as in
\* MakeGame, the first game won, lost or drawn, every reported rating one of
\* ReportedRating(0..MaxRatingStep)
EloGame(k, player_is_white, outcome, step) ==
    LET playerSide == [username |-> IF player_is_white THEN "alice" ELSE "Alice",
                       rating |-> ReportedRating(step),
                       result |-> CASE outcome = "won" -> "win"
                                    [] outcome = "lost" -> "checkmated"
                                    [] OTHER -> "stalemate"]
        otherSide == [username |-> "bob", rating |-> OpponentRating(k),
                      result |-> CASE outcome = "won" -> "resigned"
                                   [] outcome = "lost" -> "win"
                                   [] OTHER -> "stalemate"]
    IN  [url |-> k,
         white |-> IF player_is_white THEN playerSide ELSE otherSide,
         black |-> IF player_is_white THEN otherSide ELSE playerSide]

Outcomes == {"won", "lost", "drawn"}
EloShapes(n) == [1..n -> [white : BOOLEAN, outcome : Outcomes, step : 0..MaxRatingStep]]
\* the outcome of a later game plays no part: it is the one MakeGame gives game k
LaterOutcome(k) == CASE k % 3 = 1 -> "won" [] k % 3 = 2 -> "lost" [] OTHER -> "drawn"
EloInputs ==
    UNION {{[k \in 1..n |-> EloGame(k, sh[k].white, sh[k].outcome, sh[k].step)] :
               sh \in {t \in EloShapes(n) :
                           \A k \in 2..n : t[k].outcome = LaterOutcome(k)}} :
           n \in 0..MaxEloGames}

InitElo ==
    /\ remoteMonths = AllRapid(1)
    /\ remoteIndex = IndexOf(remoteMonths)
    /\ indexFiles = NoFiles
    /\ archiveFiles = NoFiles
    /\ netLog = <<>>
    /\ writeLog = <<>>
    /\ callLog = <<>>
    /\ pc = [c \in Callers |-> "idle"]
    /\ frame = [c \in Callers |-> IdleFrame]
    /\ q = IdleQuery
    /\ prev = None
    /\ acc = IdleAccess
    /\ \E archived_games \in EloInputs :
          elo = [pc |-> "call", player_name |-> "alice",
                 archived_games |-> archived_games, out |-> <<>>]

\* _correct_archive_elo(archived_games, player_name)
CorrectElo ==
    /\ elo.pc = "call"
    /\ elo' = [elo EXCEPT !.pc = "done",
                           !.out = _correct_archive_elo(elo.archived_games, elo.player_name)]
    /\ UNCHANGED <<remoteMonths, remoteIndex, indexFiles, archiveFiles, netLog, writeLog,
                   callLog, pc, frame, q, prev, acc>>

NextElo == CorrectElo

SpecElo == InitElo /\ [][NextElo]_vars

\* the list has been rewritten; what the remote reported for game k and what the
\* list holds for it afterwards, seen from the player's side
EloDone == elo.pc = "done"
EloLen == Len(elo.archived_games)
ReportedElo(k) == get_elo(elo.archived_games[k], elo.player_name)
CorrectedElo(k) == get_elo(elo.out[k], elo.player_name)
EloChange(k) == ReportedElo(k).Player - ReportedElo(k - 1).Player

(* C11: after the reconstruction of a list of n >= 2 games, the player's rating in
   every game i >= 2 is the rating the remote source reported for the player in
   game i-1 (the reported value, not the corrected one of game i-1). *)
C11_CarriesReportedRating ==
    EloDone =>
        /\ Len(elo.out) = EloLen
        /\ \A k \in 2..EloLen : CorrectedElo(k).Player = ReportedElo(k - 1).Player

\* three games with three different reported ratings: game 2 was rewritten, and
\* game 3 carries what was reported for game 2, not what game 2 holds now
C11_Witness ==
    /\ EloDone /\ EloLen >= 3
    /\ CorrectedElo(2).Player # ReportedElo(2).Player
    /\ CorrectedElo(3).Player = ReportedElo(2).Player
    /\ CorrectedElo(3).Player # CorrectedElo(2).Player

(* C12 as stated: for every game i >= 2 the reconstruction adds
   eloChange = reported[i] - reported[i-1] to the opponent's rating and the
   difference (player - opponent) of game i after it is the difference the remote
   source reported for the game. *)
C12_DifferencePreserved ==
    EloDone =>
        \A k \in 2..EloLen :
            /\ CorrectedElo(k).Opponent = ReportedElo(k).Opponent + EloChange(k)
            /\ CorrectedElo(k).Player - CorrectedElo(k).Opponent
                   = ReportedElo(k).Player - ReportedElo(k).Opponent

(* C12 amended: for every game i >= 2 the reconstruction adds eloChange to the
   opponent's rating while the player's goes down by eloChange: the sum of the two
   ratings is the reported one and the difference (player - opponent) is the
   reported difference less twice eloChange. *)
C12_OpponentShifted ==
    EloDone =>
        \A k \in 2..EloLen :
            /\ CorrectedElo(k).Opponent = ReportedElo(k).Opponent + EloChange(k)
            /\ CorrectedElo(k).Player + CorrectedElo(k).Opponent
                   = ReportedElo(k).Player + ReportedElo(k).Opponent
            /\ CorrectedElo(k).Player - CorrectedElo(k).Opponent
                   = (ReportedElo(k).Player - ReportedElo(k).Opponent) - 2 * EloChange(k)

\* a later game with the black pieces whose reported rating went up: the
\* difference after the rewrite is not the reported one
C12_Witness ==
    /\ EloDone /\ EloLen >= 2
    /\ \E k \in 2..EloLen :
          /\ EloChange(k) > 0
          /\ elo.archived_games[k].black.username = "Alice"
          /\ CorrectedElo(k).Player - CorrectedElo(k).Opponent
                 # ReportedElo(k).Player - ReportedElo(k).Opponent

\* the integers a rounding of total / d may give: the nearest ones
NearestIntegers(total, d) == {e \in 0..total : Abs(2 * d * e - 2 * total) <= d}
\* the result of the first game as its two sides tell it
FirstOutcome ==
    LET mine == IF Lower(elo.archived_games[1].white.username) = Lower(elo.player_name)
                THEN elo.archived_games[1].white ELSE elo.archived_games[1].black
        theirs == IF Lower(elo.archived_games[1].white.username) = Lower(elo.player_name)
                  THEN elo.archived_games[1].black ELSE elo.archived_games[1].white
    IN  IF mine.result = "win" THEN "won"
        ELSE IF theirs.result = "win" THEN "lost" ELSE "drawn"

(* C13: the first game.  With fewer than 2 games the list is unchanged;
   otherwise, E being the rounded mean of |eloChange| over games 2..n, the player's
   rating goes down by E and the opponent's up by E if the player won game 1, the
   reverse if the player lost, and both are unchanged if nobody won; the same for
   both colours. *)
C13_FirstGameGuess ==
    EloDone =>
        IF EloLen < 2 THEN elo.out = elo.archived_games
        ELSE \E e \in NearestIntegers(SeqSum([k \in 1..(EloLen - 1) |->
                                                  Abs(EloChange(k + 1))]), EloLen - 1) :
                LET d == CASE FirstOutcome = "won" -> -e
                           [] FirstOutcome = "lost" -> e
                           [] OTHER -> 0
                IN  /\ CorrectedElo(1).Player = ReportedElo(1).Player + d
                    /\ CorrectedElo(1).Opponent = ReportedElo(1).Opponent - d
                    /\ FirstOutcome = "drawn" => elo.out[1] = elo.archived_games[1]

\* a first game won with the black pieces, the mean change not zero: white (the
\* opponent) went up and black down
C13_Witness ==
    /\ EloDone /\ EloLen >= 3
    /\ FirstOutcome = "won"
    /\ elo.archived_games[1].black.username = "Alice"
    /\ elo.out[1].white.rating > elo.archived_games[1].white.rating
    /\ elo.out[1].black.rating < elo.archived_games[1].black.rating

(***************************************************************************)
(* The game accessors and a built predicate on their own (SpecAccess): a   *)
(* game and the arguments of one call are drawn, the call is made.         *)
(***************************************************************************)
\* get_opponent_name: the other side's username, ValueError for a stranger
get_opponent_name(archived_game, player_name) ==
    IF _case_insensitive_match(archived_game.white.username, player_name)
    THEN Returned(archived_game.black.username)
    ELSE IF _case_insensitive_match(archived_game.black.username, player_name)
    THEN Returned(archived_game.white.username)
    ELSE Raised("ValueError")

\* games of either colour, won, lost and drawn, with and without accuracies, of
\* every kind, of the standard rules and of a variant
AccessGames ==
    {[MakeGame(k, kind, 1, 0) EXCEPT !.rules = rules] :
        k \in 1..(2 * MaxGames), kind \in Kinds, rules \in {"chess", "chess960"}}
AccessNames == PlayerNames \cup {"carol"}

\* a rating difference that some games of the model exceed and some do not
EloDiffLimit == Abs(ReportedRating(2) - OpponentRating(2)) + 1
\* the predicates build_archive_filter can build from the values of the model
BuiltFilters ==
    {build_archive_filter(rated, has_accuracies, exclude_draws, max_elo_diff, rules) :
        rated \in {None, Some(TRUE), Some(FALSE)},
        has_accuracies \in {None, Some(TRUE), Some(FALSE)},
        exclude_draws \in {None, Some(TRUE), Some(FALSE)},
        max_elo_diff \in {None, Some(EloDiffLimit)},
        rules \in {None, Some("chess")}}

InitAccess ==
    /\ remoteMonths = AllRapid(1)
    /\ remoteIndex = IndexOf(remoteMonths)
    /\ indexFiles = NoFiles
    /\ archiveFiles = NoFiles
    /\ netLog = <<>>
    /\ writeLog = <<>>
    /\ callLog = <<>>
    /\ pc = [c \in Callers |-> "idle"]
    /\ frame = [c \in Callers |-> IdleFrame]
    /\ q = IdleQuery
    /\ prev = None
    /\ elo = IdleElo
    /\ \E archived_game \in AccessGames :
          \/ \E f \in BuiltFilters :
                acc = [pc |-> "call", op |-> "filter_func", archived_game |-> archived_game,
                       arg |-> f, out |-> <<>>]
          \/ \E player_name \in AccessNames, op \in {"get_won", "get_opponent_name"} :
                acc = [pc |-> "call", op |-> op, archived_game |-> archived_game,
                       arg |-> player_name, out |-> <<>>]

\* filter_func(archived_game), filter_func built by build_archive_filter
CallFilter ==
    /\ acc.pc = "call" /\ acc.op = "filter_func"
    /\ acc' = [acc EXCEPT !.pc = "done",
                           !.out = filter_func_of(acc.arg, acc.archived_game)]
    /\ UNCHANGED <<remoteMonths, remoteIndex, indexFiles, archiveFiles, netLog, writeLog,
                   callLog, pc, frame, q, prev, elo>>

\* get_won(archived_game, player_name)
CallGetWon ==
    /\ acc.pc = "call" /\ acc.op = "get_won"
    /\ acc' = [acc EXCEPT !.pc = "done", !.out = get_won(acc.archived_game, acc.arg)]
    /\ UNCHANGED <<remoteMonths, remoteIndex, indexFiles, archiveFiles, netLog, writeLog,
                   callLog, pc, frame, q, prev, elo>>

\* get_opponent_name(archived_game, player_name)
CallGetOpponentName ==
    /\ acc.pc = "call" /\ acc.op = "get_opponent_name"
    /\ acc' = [acc EXCEPT !.pc = "done",
                           !.out = get_opponent_name(acc.archived_game, acc.arg)]
    /\ UNCHANGED <<remoteMonths, remoteIndex, indexFiles, archiveFiles, netLog, writeLog,
                   callLog, pc, frame, q, prev, elo>>

NextAccess == CallFilter \/ CallGetWon \/ CallGetOpponentName

SpecAccess == InitAccess /\ [][NextAccess]_vars

Called(op) == acc.pc = "done" /\ acc.op = op
Decisive(archived_game) ==
    archived_game.white.result = "win" \/ archived_game.black.result = "win"

(* C21: a predicate built by build_archive_filter returns true for a game if and
   only if every criterion that was specified holds: rated equals the value given,
   accuracies present (absent) as asked, a decisive result when draws are to be
   excluded, the absolute rating difference within the limit, rules equal to the
   value given; a criterion left at None, or the exclusion of draws switched off,
   asks for nothing. *)
C21_AllSpecifiedCriteria ==
    Called("filter_func") =>
        LET f == acc.arg
            g == acc.archived_game
        IN  acc.out <=>
               /\ f.rated # None => g.rated = f.rated[1]
               /\ f.has_accuracies # None => ((g.accuracies # None) <=> f.has_accuracies[1])
               /\ f.exclude_draws = Some(TRUE) => Decisive(g)
               /\ f.max_elo_diff # None
                     => Abs(g.white.rating - g.black.rating) <= f.max_elo_diff[1]
               /\ f.rules # None => g.rules = f.rules[1]

\* the side of the game a name matches, if any
SidesFor(archived_game, player_name) ==
    {side \in {"white", "black"} :
        Lower(archived_game[side].username) = Lower(player_name)}
OtherSide(side) == IF side = "white" THEN "black" ELSE "white"

(* C22: for a name that matches one side of a game, whatever its case, get_won is
   1 when that side's result is "win", 0 when the other side's is, None for both
   sides when neither is, so the two sides of one game never both win or both lose;
   get_opponent_name is the other side's username; both raise ValueError for a
   name that matches neither side. *)
C22_PerspectiveConsistent ==
    /\ Called("get_won") =>
          LET g == acc.archived_game
          IN  /\ SidesFor(g, acc.arg) = {} => acc.out.raised = "ValueError"
              /\ \A side \in SidesFor(g, acc.arg) :
                    /\ acc.out.raised = "none"
                    /\ acc.out.value =
                          IF g[side].result = "win" THEN Some(1)
                          ELSE IF g[OtherSide(side)].result = "win" THEN Some(0)
                          ELSE None
                    /\ LET theirs == get_won(g, g[OtherSide(side)].username).value
                       IN  \/ acc.out.value = Some(1) /\ theirs = Some(0)
                           \/ acc.out.value = Some(0) /\ theirs = Some(1)
                           \/ acc.out.value = None /\ theirs = None
    /\ Called("get_opponent_name") =>
          LET g == acc.archived_game
          IN  /\ SidesFor(g, acc.arg) = {} => acc.out = Raised("ValueError")
              /\ \A side \in SidesFor(g, acc.arg) :
                    acc.out = Returned(g[OtherSide(side)].username)

\* the player asked for in lower case, listed with a capital as black, who won
C22_Witness ==
    /\ Called("get_won")
    /\ acc.arg = "alice"
    /\ acc.archived_game.black.username = "Alice"
    /\ acc.archived_game.black.result = "win"
    /\ acc.out = [raised |-> "none", value |-> Some(1)]
    /\ get_won(acc.archived_game, "bob").value = Some(0)

(***************************************************************************)
(* The two queries, statement by statement (SpecScan).                     *)
(***************************************************************************)
QueryPlayers == {"alice"}
RatedOnly == build_archive_filter(Some(TRUE), None, None, None, Some("chess"))
WithinElo == build_archive_filter(None, None, None, Some(EloDiffLimit), Some("chess"))
FilterInputs == {None, Some(RatedOnly), Some(WithinElo)}
\* the rating criterion is drawn with the other optional arguments left out
ArgumentsDrawn(filter_func, time_class, max_games_searched) ==
    filter_func = Some(WithinElo) => (time_class = None /\ max_games_searched = None)
TimeClassInputs == {None, Some("rapid")}

\* timestamps a window may start or end at: before everything, inside the first
\* month, the first instant of the second month; Now is after everything
HistoryStart == FirstMonthIdx * MonthLen
Now == HistoryStart + MonthsPerYear * MonthLen
MinTime == -Now
TimePoints == {MinTime, HistoryStart + 1, HistoryStart + MonthLen}

\* the list the remote answers with: the generated histories also with one entry
\* that the regular expression does not match
IndexInputs(months) ==
    {IndexOf(months)} \cup
        (IF months \in GeneratedHistories
         THEN {[IndexOf(months) EXCEPT ![i] = MalformedUrl] : i \in 1..Len(months)}
         ELSE {})

InitScan ==
    /\ remoteMonths \in GeneratedHistories \cup {LongHistory, ScenarioHistory}
    /\ remoteIndex \in IndexInputs(remoteMonths)
    /\ indexFiles = NoFiles
    /\ archiveFiles = NoFiles
    /\ netLog = <<>>
    /\ writeLog = <<>>
    /\ callLog = <<>>
    /\ pc = [c \in Callers |-> "idle"]
    /\ frame = [c \in Callers |-> IdleFrame]
    /\ q = IdleQuery
    /\ prev = None
    /\ elo = IdleElo
    /\ acc = IdleAccess

\* the arguments drawn for get_most_recent_games on the history at hand
CountInputs ==
    IF remoteMonths = ScenarioHistory THEN {ScenarioCount}
    ELSE IF remoteMonths = LongHistory THEN {1}
    ELSE 0..MaxCount
CapInputs ==
    IF remoteMonths \in {ScenarioHistory, LongHistory} THEN {None}
    ELSE {None} \cup {Some(n) : n \in 0..MaxCap}

\* a call of get_most_recent_games
StartMostRecent ==
    /\ q.pc = "idle"
    /\ \E player_name \in QueryPlayers, num_games \in CountInputs,
          time_class \in TimeClassInputs, filter_func \in FilterInputs,
          max_games_searched \in CapInputs :
        /\ ArgumentsDrawn(filter_func, time_class, max_games_searched)
        /\ q' = NewQuery("mostRecent", player_name, num_games, time_class, filter_func,
                         max_games_searched, MinTime, Now)
    /\ prev' = None
    /\ UNCHANGED <<remoteMonths, remoteIndex, indexFiles, archiveFiles, netLog, writeLog, callLog,
                   pc, frame, elo, acc>>

\* a call of get_games_between_timestamps
StartBetween ==
    /\ q.pc = "idle"
    /\ remoteMonths \in GeneratedHistories
    /\ \E player_name \in QueryPlayers, start_unix \in TimePoints, end_unix \in TimePoints,
          time_class \in TimeClassInputs, filter_func \in FilterInputs :
        /\ ArgumentsDrawn(filter_func, time_class, None)
        /\ q' = NewQuery("between", player_name, 0, time_class, filter_func, None,
                         start_unix, end_unix)
    /\ prev' = None
    /\ UNCHANGED <<remoteMonths, remoteIndex, indexFiles, archiveFiles, netLog, writeLog, callLog,
                   pc, frame, elo, acc>>

\* get_games_between_timestamps(player, -inf, now, ...) called right after a
\* get_most_recent_games that returned, with the same time class, predicate and
\* correct_elo
StartBetweenAfterMostRecent ==
    /\ q.pc = "done" /\ q.op = "mostRecent" /\ q.out.raised = "none"
    /\ prev' = Some([player_name |-> q.player_name, time_class |-> q.time_class,
                     filter_func |-> q.filter_func, correct_elo |-> q.correct_elo,
                     result |-> q.out.value,
                     oldest_recorded |->
                         IF q.recent_archived_games = <<>> THEN 0
                         ELSE q.recent_archived_games[Len(q.recent_archived_games)].game.url])
    /\ q' = NewQuery("between", q.player_name, 0, q.time_class, q.filter_func, None,
                     MinTime, Now)
    /\ UNCHANGED <<remoteMonths, remoteIndex, indexFiles, archiveFiles, netLog, writeLog, callLog,
                   pc, frame, elo, acc>>

\* monthly_archived_list = _getMonthlyArchivesList(player_name), narrowed to the
\* window's months in get_games_between_timestamps
QueryIndex ==
    /\ q.pc = "index"
    /\ \E status \in IndexStatuses(q.player_name) :
        LET r == _getMonthlyArchivesList(indexFiles, remoteIndex, q.player_name, status)
            logged == [q EXCEPT !.net = q.net \o r.net, !.wrote = q.wrote \o r.wrote]
            upTo == _filterOutArchiveListAfterUnixTimestamp(r.out.value, q.end_unix)
            narrowed == IF upTo.raised # "none" THEN upTo
                        ELSE _filterOutArchiveListBeforeUnixTimestamp(upTo.value,
                                                                      q.start_unix)
        IN  /\ indexFiles' = r.files
            /\ q' = IF r.out.raised # "none"
                    THEN [logged EXCEPT !.pc = "done", !.out = r.out]
                    ELSE IF q.op = "between" /\ narrowed.raised # "none"
                    THEN [logged EXCEPT !.pc = "done", !.out = narrowed]
                    ELSE [logged EXCEPT !.pc = "month",
                                        !.monthly_archived_list =
                                            IF q.op = "between" THEN narrowed.value
                                            ELSE r.out.value]
    /\ UNCHANGED <<remoteMonths, remoteIndex, archiveFiles, netLog, writeLog, callLog, pc, frame, prev, elo, acc>>

\* for i in range(len(monthly_archived_list)): the next month, newest first, and its
\* archive; the loop ends when the list is used up
QueryMonth ==
    /\ q.pc = "month"
    /\ IF q.i < Len(q.monthly_archived_list)
       THEN \E status \in MonthStatuses(
                               q.monthly_archived_list[Len(q.monthly_archived_list) - q.i]) :
            LET month_url == q.monthly_archived_list[Len(q.monthly_archived_list) - q.i]
                r == _getArchivedGames(archiveFiles, remoteMonths, month_url, status)
                logged == [q EXCEPT !.net = q.net \o r.net, !.wrote = q.wrote \o r.wrote,
                                    !.obtained = Append(q.obtained, month_url)]
            IN  /\ archiveFiles' = r.files
                /\ q' = IF r.out.raised # "none"
                        THEN [logged EXCEPT !.pc = "done", !.out = r.out]
                        ELSE [logged EXCEPT !.pc = "game", !.j = 0,
                                            !.archived_games = r.out.value]
       ELSE /\ q' = [q EXCEPT !.pc = "finish"]
            /\ UNCHANGED archiveFiles
    /\ UNCHANGED <<remoteMonths, remoteIndex, indexFiles, netLog, writeLog, callLog, pc, frame, prev, elo, acc>>

\* mutant: only the cap stops the scan
StopScan_capOnly(num_unfiltered, num_games, games_searched, max_games_searched) ==
    games_searched = max_games_searched

\* if num_unfiltered == num_games or games_searched == max_games_searched
StopScan(num_unfiltered, num_games, games_searched, max_games_searched) ==
    num_unfiltered = num_games \/ games_searched = max_games_searched

\* archived_games[-(j+1)]
GameFromEnd(archived_games, j) == archived_games[Len(archived_games) - j]

\* mutant: the counter is advanced after the time class test, for matching games only
ScannedAfterVisit_matchingOnly(games_searched, time_class, archived_game) ==
    IF WrongTimeClass(time_class, archived_game) THEN games_searched ELSE games_searched + 1

\* games_searched += 1, before the time class is looked at
ScannedAfterVisit(games_searched, time_class, archived_game) == games_searched + 1

\* the inner loop of get_most_recent_games: one game is visited, or the loop is
\* left (by break or at its end) and the outer loop's own stop test is made
MostRecentGame ==
    /\ q.pc = "game" /\ q.op = "mostRecent"
    /\ IF q.j < Len(q.archived_games)
          /\ ~StopScan(q.num_unfiltered, q.num_games, q.games_searched, q.max_games_searched)
       THEN LET archived_game == GameFromEnd(q.archived_games, q.j)
                filtered == Filtered(q.filter_func, archived_game)
                seen == [q EXCEPT !.j = q.j + 1,
                                  !.games_searched =
                                      ScannedAfterVisit(q.games_searched, q.time_class,
                                                        archived_game),
                                  !.visited = Append(q.visited, archived_game.url)]
            IN  q' = IF WrongTimeClass(q.time_class, archived_game)
                     THEN seen
                     ELSE [seen EXCEPT !.recent_archived_games =
                                           Append(q.recent_archived_games,
                                                  [game |-> archived_game,
                                                   filtered |-> filtered]),
                                       !.num_unfiltered =
                                           IF filtered THEN q.num_unfiltered
                                           ELSE q.num_unfiltered + 1]
       ELSE q' = IF StopScan(q.num_unfiltered, q.num_games, q.games_searched,
                             q.max_games_searched)
                 THEN [q EXCEPT !.pc = "finish"]
                 ELSE [q EXCEPT !.pc = "month", !.i = q.i + 1]
    /\ UNCHANGED <<remoteMonths, remoteIndex, indexFiles, archiveFiles, netLog, writeLog, callLog,
                   pc, frame, prev, elo, acc>>

\* mutant: only the end of the window is tested
InWindow_upperOnly(archived_game, start_unix, end_unix) ==
    ~(archived_game.end_time > end_unix)

\* mutant: a game that ended at either end of the window is left out
InWindow_strict(archived_game, start_unix, end_unix) ==
    ~(archived_game.end_time >= end_unix \/ archived_game.end_time <= start_unix)

\* if unix_timestamp > end_unix or unix_timestamp < start_unix: continue
InWindow(archived_game, start_unix, end_unix) ==
    ~(archived_game.end_time > end_unix \/ archived_game.end_time < start_unix)

\* the inner loop of get_games_between_timestamps: every game of the month
BetweenGame ==
    /\ q.pc = "game" /\ q.op = "between"
    /\ IF q.j < Len(q.archived_games)
       THEN LET archived_game == GameFromEnd(q.archived_games, q.j)
                seen == [q EXCEPT !.j = q.j + 1,
                                  !.visited = Append(q.visited, archived_game.url)]
            IN  q' = IF ~InWindow(archived_game, q.start_unix, q.end_unix)
                        \/ WrongTimeClass(q.time_class, archived_game)
                     THEN seen
                     ELSE [seen EXCEPT !.recent_archived_games =
                                           Append(q.recent_archived_games,
                                                  [game |-> archived_game,
                                                   filtered |-> Filtered(q.filter_func,
                                                                         archived_game)])]
       ELSE q' = [q EXCEPT !.pc = "month", !.i = q.i + 1]
    /\ UNCHANGED <<remoteMonths, remoteIndex, indexFiles, archiveFiles, netLog, writeLog, callLog,
                   pc, frame, prev, elo, acc>>

\* mutant: the buffer is left in scan order
Chronological_scanOrder(recent_archived_games) == recent_archived_games

\* recent_archived_games = list(reversed(recent_archived_games))
Chronological(recent_archived_games) == Reverse(recent_archived_games)

\* mutant: the whole list is returned, predicate or not
ReturnedGames_unfiltered(recent_archived_games, player_name, filter_func, correct_elo) ==
    LET recent == Chronological(recent_archived_games)
        games_list == [k \in 1..Len(recent) |-> recent[k].game]
    IN  IF correct_elo THEN _correct_archive_elo(games_list, player_name) ELSE games_list

\* mutant: the predicate's choice is made first and only the chosen games are
\* handed to _correct_archive_elo
ReturnedGames_correctsKept(recent_archived_games, player_name, filter_func, correct_elo) ==
    LET recent == Chronological(recent_archived_games)
        chosen == IF filter_func # None
                  THEN SelectSeq(recent, LAMBDA game_dict : ~game_dict.filtered)
                  ELSE recent
        games_list == [k \in 1..Len(chosen) |-> chosen[k].game]
    IN  IF correct_elo THEN _correct_archive_elo(games_list, player_name) ELSE games_list

\* mutant: the predicate is asked again after _correct_archive_elo, about the
\* corrected games
ReturnedGames_filterAfterCorrection(recent_archived_games, player_name, filter_func, correct_elo) ==
    LET recent == Chronological(recent_archived_games)
        games_list == [k \in 1..Len(recent) |-> recent[k].game]
        corrected == IF correct_elo THEN _correct_archive_elo(games_list, player_name)
                     ELSE games_list
    IN  IF filter_func # None
        THEN SelectSeq(corrected, LAMBDA game : ~Filtered(filter_func, game))
        ELSE corrected

\* the statements after the scan, the same in both queries: reverse, correct the
\* ratings of the whole list, keep the unfiltered games when a predicate was given
ReturnedGames(recent_archived_games, player_name, filter_func, correct_elo) ==
    LET recent == Chronological(recent_archived_games)
        games_list == [k \in 1..Len(recent) |-> recent[k].game]
        corrected == IF correct_elo THEN _correct_archive_elo(games_list, player_name)
                     ELSE games_list
        kept == {k \in 1..Len(recent) : ~recent[k].filtered}
        pick[k \in 0..Len(recent)] ==
            IF k = 0 THEN <<>>
            ELSE IF k \in kept THEN Append(pick[k - 1], corrected[k]) ELSE pick[k - 1]
    IN  IF filter_func # None THEN pick[Len(recent)] ELSE corrected

QueryFinish ==
    /\ q.pc = "finish"
    /\ \E correct_elo \in (IF prev = None THEN BOOLEAN ELSE {prev[1].correct_elo}) :
        q' = [q EXCEPT !.pc = "done", !.correct_elo = correct_elo,
                       !.out = Returned(ReturnedGames(q.recent_archived_games, q.player_name,
                                                      q.filter_func, correct_elo))]
    /\ UNCHANGED <<remoteMonths, remoteIndex, indexFiles, archiveFiles, netLog, writeLog, callLog,
                   pc, frame, prev, elo, acc>>

\* the caller has its answer; the process goes on with the cache as it is
QueryReturn ==
    /\ q.pc = "done"
    /\ q' = IdleQuery
    /\ prev' = None
    /\ UNCHANGED <<remoteMonths, remoteIndex, indexFiles, archiveFiles, netLog, writeLog, callLog,
                   pc, frame, elo, acc>>

NextScan ==
    \/ StartMostRecent
    \/ StartBetween
    \/ StartBetweenAfterMostRecent
    \/ QueryIndex
    \/ QueryMonth
    \/ MostRecentGame
    \/ BetweenGame
    \/ QueryFinish
    \/ QueryReturn

SpecScan == InitScan /\ [][NextScan]_vars

(***************************************************************************)
(* Properties of the two queries.                                          *)
(***************************************************************************)
\* alice's whole history, oldest game first; game k has url k
AllGames == Flatten(remoteMonths)
Urls(games) == [k \in 1..Len(games) |-> games[k].url]
Done(op) == q.pc = "done" /\ q.op = op /\ q.out.raised = "none"
Scanning(op) == q.pc # "idle" /\ q.op = op

\* a game the query asks for: of its time class and passing its predicate
Wanted(archived_game) ==
    /\ q.time_class = None \/ archived_game.time_class = q.time_class[1]
    /\ ~Filtered(q.filter_func, archived_game)
WantedVisited == SelectSeq(q.visited, LAMBDA url : Wanted(AllGames[url]))

(* C5: every game returned by between(player, s, e, ...) has s <= end_time <= e. *)
C5_WindowCorrect ==
    Done("between") =>
        \A k \in 1..Len(q.out.value) :
            /\ q.start_unix <= q.out.value[k].end_time
            /\ q.out.value[k].end_time <= q.end_unix

\* a window that returns a game, leaves out an older wanted game it visited in
\* the same month, and ends before a newer game of the history
C5_Witness ==
    /\ Done("between")
    /\ q.out.value # <<>>
    /\ \E k \in 1..Len(q.visited) :
          Wanted(AllGames[q.visited[k]]) /\ AllGames[q.visited[k]].end_time < q.start_unix
    /\ \E k \in 1..Len(AllGames) : AllGames[k].end_time > q.end_unix

(* C6: the sequence returned by mostRecent is in non-decreasing end_time order. *)
C6_Chronological ==
    Done("mostRecent") =>
        \A k \in 1..(Len(q.out.value) - 1) :
            q.out.value[k].end_time <= q.out.value[k + 1].end_time

\* a result made of games of two months, one recorded game having been dropped
\* by the predicate
C6_Witness ==
    /\ Done("mostRecent")
    /\ Len(q.out.value) >= 2
    /\ Len(q.obtained) >= 2
    /\ Len(q.out.value) < Len(q.recent_archived_games)
    /\ q.out.value[1].end_time < HistoryStart + MonthLen
    /\ q.out.value[Len(q.out.value)].end_time >= HistoryStart + MonthLen

(* C7 as stated: with the same time class, predicate and correct_elo, the sequence
   returned by mostRecent is a suffix, record for record, of the one returned by
   between(player, -inf, now, ...). *)
C7_SuffixOfBetween ==
    (Done("between") /\ prev # None) => IsSuffix(prev[1].result, q.out.value)

(* C7 amended: mostRecent's result is a suffix of between's game for game (same
   url and end_time, same order, every field but the ratings equal); the records
   are equal too when correct_elo is off, and with correct_elo on for every game
   but the oldest game mostRecent recorded. *)
C7_SuffixUpToOldestRatings ==
    (Done("between") /\ prev # None) =>
        LET mr == prev[1].result
            bt == q.out.value
            off == Len(bt) - Len(mr)
        IN  /\ Len(mr) <= Len(bt)
            /\ \A k \in 1..Len(mr) :
                /\ mr[k].url = bt[off + k].url
                /\ mr[k].end_time = bt[off + k].end_time
                /\ WithRatings(mr[k], 0, 0) = WithRatings(bt[off + k], 0, 0)
                /\ (~prev[1].correct_elo \/ mr[k].url # prev[1].oldest_recorded)
                      => mr[k] = bt[off + k]

\* correct_elo on, mostRecent returned two games or more and fewer than between,
\* and its oldest game carries other ratings than the same game in between's result
C7_Witness ==
    /\ Done("between") /\ prev # None
    /\ prev[1].correct_elo
    /\ Len(prev[1].result) >= 2
    /\ Len(prev[1].result) < Len(q.out.value)
    /\ prev[1].result[1] # q.out.value[Len(q.out.value) - Len(prev[1].result) + 1]
    /\ prev[1].result[1].url = q.out.value[Len(q.out.value) - Len(prev[1].result) + 1].url

(* C8 as stated, with max_games_searched left at its default: mostRecent returns
   exactly N wanted games, the newest ones, or all of the player's wanted games
   when fewer than N exist. *)
C8_ExactlyNOrAll ==
    (Done("mostRecent") /\ q.default_cap) =>
        Urls(q.out.value) = Urls(LastN(q.num_games, SelectSeq(AllGames, Wanted)))

(* C8 amended: mostRecent returns the newest N wanted games among the newest
   max_games_searched games of the history (all time classes counted), or all the
   wanted games among those when fewer than N are there. *)
C8_NewestWithinCap ==
    Done("mostRecent") =>
        Urls(q.out.value) =
            Urls(LastN(q.num_games,
                       SelectSeq(LastN(q.max_games_searched, AllGames), Wanted)))

\* the scenario: months of three and two rapid games, N = 4, the four newest come
\* back in order, the scan having gone on into the older month
C8_Witness ==
    /\ Done("mostRecent")
    /\ remoteMonths = ScenarioHistory
    /\ q.num_games = ScenarioCount /\ q.time_class = Some("rapid")
    /\ Len(q.obtained) = 2
    /\ Urls(q.out.value) = [k \in 1..ScenarioCount |-> k + 1]

(* C9: in bounded-count mode the scan stops as soon as num_games wanted games are
   recorded: never more than num_games wanted games are visited, the num_games-th
   one is the last game visited, and the returned sequence holds at most num_games
   games. *)
C9_StopsAtCount ==
    Scanning("mostRecent") =>
        /\ Len(WantedVisited) <= q.num_games
        /\ q.num_unfiltered = Len(WantedVisited)
        /\ (Len(WantedVisited) = q.num_games /\ q.visited # <<>>)
              => Wanted(AllGames[q.visited[Len(q.visited)]])
        /\ Done("mostRecent") => Len(q.out.value) <= q.num_games

\* a scan with a predicate that stopped at the count with older games unvisited and
\* the cap not reached, having recorded a game that failed the predicate
C9_Witness ==
    /\ Done("mostRecent")
    /\ q.filter_func # None
    /\ q.num_games >= 1
    /\ Len(q.out.value) = q.num_games
    /\ Len(q.recent_archived_games) > q.num_games
    /\ Len(q.visited) < Len(AllGames)
    /\ q.games_searched < q.max_games_searched

(* C10: every visited game counts against the cap, whatever its time class: the
   scanned counter is the number of visited games and never exceeds
   max_games_searched (num_games * 10 by default). *)
C10_ScanCap ==
    Scanning("mostRecent") =>
        /\ q.games_searched = Len(q.visited)
        /\ Len(q.visited) <= q.max_games_searched

\* the default cap reached on games of another time class, older games unvisited
C10_Witness ==
    /\ Done("mostRecent")
    /\ q.default_cap /\ q.num_games >= 1
    /\ Len(q.visited) = q.max_games_searched
    /\ Len(q.visited) < Len(AllGames)
    /\ \A k \in 1..Len(q.visited) : WrongTimeClass(q.time_class, AllGames[q.visited[k]])
    /\ q.out.value = <<>>

\* the games a finished scan recorded, oldest first: the visited games of the
\* time class asked for, and inside the window in get_games_between_timestamps
RecordedUrls ==
    Reverse(SelectSeq(q.visited,
        LAMBDA url :
            /\ q.time_class = None \/ AllGames[url].time_class = q.time_class[1]
            /\ q.op = "between" =>
                   (q.start_unix <= AllGames[url].end_time
                       /\ AllGames[url].end_time <= q.end_unix)))

(* C14: in both queries, when a predicate is supplied the returned sequence holds
   exactly the recorded games that pass the predicate, in the chronological order
   they were recorded in; with no predicate it holds every recorded game. *)
C14_PredicateSelects ==
    (Done("mostRecent") \/ Done("between")) =>
        /\ Urls(q.out.value) =
              IF q.filter_func = None THEN RecordedUrls
              ELSE SelectSeq(RecordedUrls,
                             LAMBDA url : filter_func_of(q.filter_func[1], AllGames[url]))
        /\ Len(q.recent_archived_games) = Len(RecordedUrls)

\* a window query with a predicate that recorded three games and returned the
\* first and the last of them
C14_Witness ==
    /\ Done("between")
    /\ q.filter_func # None
    /\ Len(RecordedUrls) >= 3
    /\ Urls(q.out.value) = <<RecordedUrls[1], RecordedUrls[3]>>

\* months counted from year 0, for a URL of the index and for a timestamp
MonthNo(month_url) == month_url.year * MonthsPerYear + month_url.month
MonthNoAt(unix_timestamp) ==
    gmtime(unix_timestamp).tm_year * MonthsPerYear + gmtime(unix_timestamp).tm_mon

(* C15: _filterOutArchiveListAfterUnixTimestamp keeps exactly the index entries
   whose (year, month) is <= the timestamp's and
   _filterOutArchiveListBeforeUnixTimestamp exactly those >= it, year first, the
   boundary month included, in the order of the index; so a window query obtains
   month archives only for months from month(start_unix) to month(end_unix). *)
C15_MonthRange ==
    /\ ~HasMalformed(remoteIndex) =>
          \A ts \in TimePoints \cup {Now} :
              /\ _filterOutArchiveListAfterUnixTimestamp(remoteIndex, ts)
                    = Returned(SelectSeq(remoteIndex,
                                         LAMBDA u : MonthNo(u) <= MonthNoAt(ts)))
              /\ _filterOutArchiveListBeforeUnixTimestamp(remoteIndex, ts)
                    = Returned(SelectSeq(remoteIndex,
                                         LAMBDA u : MonthNo(u) >= MonthNoAt(ts)))
    /\ Scanning("between") =>
          \A k \in 1..Len(q.obtained) :
              /\ MonthNoAt(q.start_unix) <= MonthNo(q.obtained[k])
              /\ MonthNo(q.obtained[k]) <= MonthNoAt(q.end_unix)

\* a window that ends in December of one year on an index that goes on into
\* January of the next: December is obtained, January (month 1 < 12) is not
C15_Witness ==
    /\ Done("between")
    /\ Len(remoteIndex) = 2
    /\ MonthNoAt(q.end_unix) = MonthNo(remoteIndex[1])
    /\ remoteIndex[2].month < remoteIndex[1].month
    /\ q.obtained = <<remoteIndex[1]>>
    /\ q.out.value # <<>>

(* C16: an index entry that the month-URL pattern does not match is fatal for
   what meets it: the month filters and _getArchivedGames raise, so a window query
   on an index holding such an entry ends in an error, a most-recent scan ends in
   an error when it comes to the entry, no query goes past it and no month of the
   index is passed over. *)
C16_MalformedIsFatal ==
    /\ \A k \in 1..Len(q.obtained) :
          Conforms(q.obtained[k])
              \/ (k = Len(q.obtained) /\ q.pc = "done" /\ q.out.raised = "TypeError")
    /\ (Scanning("mostRecent") /\ q.pc # "index") =>
          q.obtained = SubSeq(Reverse(remoteIndex), 1, Len(q.obtained))
    /\ (Scanning("between") /\ q.pc # "index") =>
          IF HasMalformed(remoteIndex)
          THEN q.pc = "done" /\ q.out.raised \in {"TypeError", "ArchiveRetrievalError"}
                             /\ q.obtained = <<>>
          ELSE q.out.raised # "TypeError"

\* a most-recent scan that recorded the games of the newest month, went on into
\* the month before and ended there with the error
C16_Witness ==
    /\ q.pc = "done" /\ q.op = "mostRecent" /\ q.out.raised = "TypeError"
    /\ Len(q.obtained) = 2
    /\ q.recent_archived_games # <<>>
    /\ q.out.value = <<>>

\* the steps in which a cache file is created or rewritten, by the paths a query
\* logs as written
NewlyWritten == {q'.wrote[k] : k \in (Len(q.wrote) + 1)..Len(q'.wrote)}
RecordsKept(files, files_after) ==
    \A path \in DOMAIN files : path \in DOMAIN files_after /\ files_after[path] = files[path]

(* C18: persisted records are write-once.  No step of a query changes or rewrites
   a player index or month archive that exists, queries with correct_elo included:
   every month archive in the cache holds the games with the ratings the remote
   source reported. *)
C18_WriteOnce ==
    /\ [](\A path \in DOMAIN archiveFiles :
            archiveFiles[path].doc
                = RemoteGames(remoteMonths,
                              MonthUrl(path.player_name, path.year, path.month)))
    /\ [][/\ RecordsKept(indexFiles, indexFiles')
           /\ RecordsKept(archiveFiles, archiveFiles')
           /\ (q'.pc # "idle" /\ q'.op = q.op /\ Len(q'.wrote) > Len(q.wrote))
                 => \A path \in NewlyWritten :
                        path \notin (DOMAIN indexFiles \cup DOMAIN archiveFiles)
         ]_vars

\* a query with correct_elo answered from the cache alone: it returned rewritten
\* ratings, wrote nothing, and the records still hold the reported ones
C18_Witness ==
    /\ Done("mostRecent")
    /\ q.correct_elo
    /\ q.net = <<>> /\ q.wrote = <<>>
    /\ Len(q.obtained) >= 2
    /\ \E k \in 1..Len(q.out.value) : q.out.value[k] # AllGames[q.out.value[k].url]
    /\ \A path \in DOMAIN archiveFiles :
          archiveFiles[path].doc
              = RemoteGames(remoteMonths, MonthUrl(path.player_name, path.year, path.month))

\* the last request of the running query was for a month and was refused
MonthFetchFailed ==
    /\ q.pc # "idle" /\ q.net # <<>>
    /\ IsMonthRequest(q.net[Len(q.net)])
    /\ q.net[Len(q.net)].status # HTTP_OK
PathOfUrl(month_url) ==
    _archivedGamesFilePath(month_url.player_name, month_url.year, month_url.month)

(* C19: when a month request is answered with a non-success status in the middle
   of a scan, the query ends there with ArchiveRetrievalError and no result, the
   failing month was requested exactly once, no record exists for it, and the
   records of the months obtained before it in the scan are in the cache. *)
C19_MonthFetchFailure ==
    MonthFetchFailed =>
        LET failing == q.net[Len(q.net)].url
        IN  /\ q.pc = "done"
            /\ q.out = Raised("ArchiveRetrievalError")
            /\ q.obtained[Len(q.obtained)] = failing
            /\ Len(SelectSeq(q.net, LAMBDA e : e.url = failing)) = 1
            /\ PathOfUrl(failing) \notin DOMAIN archiveFiles
            /\ \A k \in 1..(Len(q.obtained) - 1) :
                  /\ PathOfUrl(q.obtained[k]) \in DOMAIN archiveFiles
                  /\ JsonLoad(archiveFiles[PathOfUrl(q.obtained[k])])
                        = Returned(RemoteGames(remoteMonths, q.obtained[k]))

\* the newest month fetched, saved and scanned, games recorded, then the month
\* before it refused: the error and nothing else comes back
C19_Witness ==
    /\ MonthFetchFailed
    /\ Len(q.obtained) = 2
    /\ Len(q.wrote) >= 1
    /\ q.recent_archived_games # <<>>
    /\ q.out.value = <<>>
    /\ PathOfUrl(q.obtained[1]) \in DOMAIN archiveFiles

\* where a returned game stands in the recorded sequence
RecordedAt(url) == CHOOSE p \in 1..Len(RecordedUrls) : RecordedUrls[p] = url

(* C23: rating reconstruction runs over the whole recorded sequence, games that
   fail the predicate included: with a predicate and correct_elo on, every
   returned game but the oldest recorded one carries as the player's rating the
   rating reported for the recorded game just before it, whether or not that game
   is in the result. *)
C23_ReconstructsOverRecorded ==
    ((Done("mostRecent") \/ Done("between")) /\ q.correct_elo /\ q.filter_func # None) =>
        \A k \in 1..Len(q.out.value) :
            RecordedAt(q.out.value[k].url) >= 2 =>
                get_elo(q.out.value[k], q.player_name).Player
                    = get_elo(AllGames[RecordedUrls[RecordedAt(q.out.value[k].url) - 1]],
                              q.player_name).Player

\* three games recorded, the middle one dropped by the predicate: the last one
\* carries the rating reported for the dropped game, not for the first
C23_Witness ==
    /\ Done("mostRecent") /\ q.correct_elo /\ q.filter_func # None
    /\ Len(RecordedUrls) = 3
    /\ Urls(q.out.value) = <<RecordedUrls[1], RecordedUrls[3]>>
    /\ get_elo(q.out.value[2], q.player_name).Player
          = get_elo(AllGames[RecordedUrls[2]], q.player_name).Player
    /\ get_elo(q.out.value[2], q.player_name).Player
          # get_elo(AllGames[RecordedUrls[1]], q.player_name).Player

(* C24: a window query is exhaustive: every game of the history whose end_time
   lies in [start_unix, end_unix], whose time class matches and which passes the
   predicate, if any, is in the result exactly once, however many games that is:
   no count and no cap on visited games ends the scan early. *)
C24_WindowExhaustive ==
    Done("between") =>
        Urls(q.out.value) =
            SelectSeq(Urls(AllGames),
                LAMBDA url :
                    /\ q.start_unix <= AllGames[url].end_time
                    /\ AllGames[url].end_time <= q.end_unix
                    /\ Wanted(AllGames[url]))

\* a window over two months that returns the whole history, its newest game
\* having ended at end_unix exactly, where a scan with num_games 0 would stop
C24_Witness ==
    /\ Done("between")
    /\ q.num_games = 0
    /\ Len(q.obtained) = 2
    /\ Len(q.out.value) >= 3
    /\ Len(q.out.value) = Len(AllGames)
    /\ q.out.value[Len(q.out.value)].end_time = q.end_unix

\* the stop condition of get_most_recent_games on the counters of the running query
StopHolds == q.num_unfiltered = q.num_games \/ q.games_searched = q.max_games_searched

(* C26: a most-recent scan obtains month archives one by one, newest first, and
   never obtains one when its stop condition already holds: a month has just been
   obtained only with fewer than num_games passing games collected and fewer than
   max_games_searched games visited, and with num_games = 0 or
   max_games_searched = 0 no month archive is obtained at all. *)
C26_NoMonthAfterStop ==
    Scanning("mostRecent") =>
        /\ q.obtained = SubSeq(Reverse(q.monthly_archived_list), 1, Len(q.obtained))
        /\ (q.pc = "game" /\ q.j = 0) => ~StopHolds
        /\ (q.num_games = 0 \/ q.max_games_searched = 0) => q.obtained = <<>>

\* the absolute rating difference of a game, white minus black
EloDiff(game) == Abs(game.white.rating - game.black.rating)

(* C27: in both queries the predicate is asked about each game during the scan,
   before _correct_archive_elo runs: with a max_elo_diff criterion the returned
   games are exactly the recorded games whose ratings as reported by the remote
   source differ by at most max_elo_diff, whatever the corrected ratings of the
   returned games are. *)
C27_ReportedRatingsDecide ==
    ((Done("mostRecent") \/ Done("between"))
        /\ q.filter_func # None /\ q.filter_func[1].max_elo_diff # None) =>
        Urls(q.out.value) =
            SelectSeq(RecordedUrls,
                LAMBDA url : EloDiff(AllGames[url]) <= q.filter_func[1].max_elo_diff[1])

\* a corrected query returned a game whose returned ratings differ by more than
\* max_elo_diff while its reported ratings do not
C27_Witness ==
    /\ Done("mostRecent") \/ Done("between")
    /\ q.correct_elo
    /\ q.filter_func # None /\ q.filter_func[1].max_elo_diff # None
    /\ \E k \in 1..Len(q.out.value) :
          /\ EloDiff(q.out.value[k]) > q.filter_func[1].max_elo_diff[1]
          /\ EloDiff(AllGames[q.out.value[k].url]) <= q.filter_func[1].max_elo_diff[1]

====
